---- MODULE Spec2Model ----
(***************************************************************************)
(* Manifest validation of platformio/package/manifest/schema.py:           *)
(* ManifestSchema.load_manifest in strict and in best-effort mode, the     *)
(* nested schemas with their error hooks, the list field that keeps the    *)
(* valid items, and the memoized SPDX license registry.                    *)
(*                                                                         *)
(* A JSON string is a sequence of one-character strings, a JSON object a   *)
(* function from key names to values, a JSON array a sequence.  A field    *)
(* result is a record [failed, valid, messages]: valid is <<v>> when the   *)
(* field contributes the value v to the output and <<>> when it does not   *)
(* (marshmallow's `missing`).                                              *)
(***************************************************************************)
EXTENDS Integers, Sequences, FiniteSets, TLC

VARIABLES
    pc,         \* position of the validation call in progress
    manifest,   \* the input document of the call
    strict,     \* self.strict
    cursor,     \* index of the next declared field to deserialize
    data,       \* the output document under construction
    errors,     \* the error store of the pass: field -> messages
    evaluated,  \* the fields and hooks evaluated so far in this call
    request,    \* the answer to the network fetch of this call, or "none"
    outcome,    \* "None", "Done", "Aborted" or "Crashed"
    out,        \* the document load_manifest returned
    messages,   \* the messages returned, or carried by the error raised
    cache,      \* the memoized registry: <<>> or <<[at, body]>>
    now,        \* the clock, in seconds
    ticks,      \* number of clock advances so far
    cpc,        \* concurrent lookups: position of each caller
    cseen,      \* concurrent lookups: what each caller was answered
    inflight,   \* concurrent lookups: the caller refetching, or 0
    flights     \* concurrent lookups: network fetches issued so far

vars == <<pc, manifest, strict, cursor, data, errors, evaluated, request,
          outcome, out, messages, cache, now, ticks, cpc, cseen, inflight,
          flights>>

engine == <<pc, manifest, strict, cursor, data, errors, evaluated, request,
            outcome, out, messages>>

lookups == <<cpc, cseen, inflight, flights>>

---------------------------------------------------------------------------
(* Bounds of the model *)

MaxEdits == 2       \* fields in which an input document departs from BaseDoc
MaxTicks == 3       \* clock advances in one behaviour
NumCallers == 2     \* concurrent callers of the registry lookup
MaxFlights == 3     \* network fetches issued by the concurrent callers

---------------------------------------------------------------------------
(* Characters and strings *)

LowerChars == {"a","b","c","d","e","f","g","h","i","j","k","l","m",
               "n","o","p","q","r","s","t","u","v","w","x","y","z"}
UpperChars == {"A","B","C","D","E","F","G","H","I","J","K","L","M",
               "N","O","P","Q","R","S","T","U","V","W","X","Y","Z"}
DigitChars == {"0","1","2","3","4","5","6","7","8","9"}

Rep(c, n) == [i \in 1..n |-> c]

Contains(s, c) == \E i \in 1..Len(s) : s[i] = c

\* a string made only of characters of cls, at least one: ^[cls]+$
AllIn(s, cls) == Len(s) >= 1 /\ \A i \in 1..Len(s) : s[i] \in cls

---------------------------------------------------------------------------
(* Field results *)

Missing == <<>>

Ok(v) == [failed |-> FALSE, valid |-> <<v>>, messages |-> <<>>]

Absent == [failed |-> FALSE, valid |-> Missing, messages |-> <<>>]

Fail(m) == [failed |-> TRUE, valid |-> Missing, messages |-> m]

\* Schema._call_and_store: `return error.valid_data or missing`; None, an
\* empty list and an empty dict are all falsy
OrMissing(v) == IF DOMAIN v = {} THEN Missing ELSE <<v>>

FailKeeping(m, v) == [failed |-> TRUE, valid |-> OrMissing(v), messages |-> m]

---------------------------------------------------------------------------
(* Messages *)

MsgRequired == "Missing data for required field."
MsgLength == "Length must be between {min} and {max}."
MsgUnknown == "Unknown field."
MsgUrl == "Not a valid URL."
MsgEmail == "Not a valid email address."
MsgBool == "Not a valid boolean."
MsgRepoType == "Invalid repository type, please use one of [git, hg, svn]"
MsgExampleName == "Only [a-zA-Z0-9-_/] chars are allowed"
MsgKeyword == "Only [a-z0-9-+. ] chars are allowed"
MsgPlatform == "Only [a-z0-9-_*] chars are allowed"
MsgSystem == "Only [a-z0-9-_] chars are allowed"
MsgSemver == "Invalid semantic versioning format, see https://semver.org/"
MsgSpdxLoad == "Could not load SPDX licenses for validation"
MsgSpdxInvalid == "Invalid SPDX license identifier. See valid identifiers at https://spdx.org/licenses/"

---------------------------------------------------------------------------
(* Validators: each yields the messages of its violation, <<>> when it     *)
(* passes.  A field runs all its validators and joins their messages.      *)

Length(s, min, max) ==
    IF min <= Len(s) /\ Len(s) <= max THEN <<>> ELSE <<MsgLength>>

Regexp(s, cls, msg) == IF AllIn(s, cls) THEN <<>> ELSE <<msg>>

\* ^([cls]+|\*)$
RegexpOrStar(s, cls, msg) ==
    IF AllIn(s, cls) \/ s = <<"*">> THEN <<>> ELSE <<msg>>

UrlSchemes == { <<"h","t","t","p">>, <<"h","t","t","p","s">>,
                <<"f","t","p">>, <<"f","t","p","s">> }

HostChars == LowerChars \cup UpperChars \cup DigitChars \cup {"-", ".", "/"}

\* validate.URL: scheme://host, the host a dotted name
IsUrl(s) ==
    \E k \in 1..Len(s) :
        /\ SubSeq(s, 1, k) \in UrlSchemes
        /\ Len(s) > k + 3
        /\ SubSeq(s, k + 1, k + 3) = <<":", "/", "/">>
        /\ AllIn(SubSeq(s, k + 4, Len(s)), HostChars)
        /\ Contains(SubSeq(s, k + 4, Len(s)), ".")
        /\ s[k + 4] \notin {".", "/", "-"}

Url(s) == IF IsUrl(s) THEN <<>> ELSE <<MsgUrl>>

LocalChars == LowerChars \cup UpperChars \cup DigitChars \cup {"-", ".", "_", "+"}

\* validate.Email: local@domain, exactly one "@", the domain a dotted name
IsEmail(s) ==
    \E k \in 2..(Len(s) - 1) :
        /\ s[k] = "@"
        /\ AllIn(SubSeq(s, 1, k - 1), LocalChars)
        /\ AllIn(SubSeq(s, k + 1, Len(s)), HostChars \ {"/"})
        /\ Contains(SubSeq(s, k + 1, Len(s)), ".")
        /\ s[k + 1] # "." /\ s[Len(s)] # "."

Email(s) == IF IsEmail(s) THEN <<>> ELSE <<MsgEmail>>

OneOf(s, choices, msg) == IF s \in choices THEN <<>> ELSE <<msg>>

\* Field.deserialize of a value that is present: the validators' verdict
Validated(v, msgs) == IF msgs = <<>> THEN Ok(v) ELSE Fail(msgs)

\* the value of a key, the empty value when the object has not the key
Get(obj, key) == IF key \in DOMAIN obj THEN obj[key] ELSE <<>>

\* Field.deserialize: r is the outcome of the field on the value of the
\* key; a key that is absent fails when the field is required
Field(obj, key, required, r) ==
    IF key \in DOMAIN obj THEN r
    ELSE IF required THEN Fail(<<MsgRequired>>) ELSE Absent

---------------------------------------------------------------------------
(* Lists *)

RECURSIVE KeepIdx(_, _)
\* the items of s at the (1-based) positions in idx, in their order
KeepIdx(s, idx) ==
    IF Len(s) = 0 THEN <<>>
    ELSE KeepIdx(SubSeq(s, 1, Len(s) - 1), idx)
            \o (IF Len(s) \in idx THEN <<s[Len(s)]>> ELSE <<>>)

\* fields.List._deserialize, res[i] the outcome of the inner field on
\* items[i]: every item is deserialized; the items that pass are collected
\* in order, the messages are keyed by 0-based index, and a failure carries
\* the collected items as valid_data
List_deserialize(items, res) ==
    LET bad == {i \in 1..Len(items) : res[i].failed}
        got == {i \in 1..Len(items) : Len(res[i].valid) = 1}
        vals == [i \in 1..Len(items) |->
                    IF i \in got THEN res[i].valid[1] ELSE items[i]]
        result == KeepIdx(vals, got)
    IN  IF bad = {} THEN Ok(result)
        ELSE FailKeeping([i \in {j - 1 : j \in bad} |-> res[i + 1].messages],
                         result)

\* the variant of the except clause that puts every input item in valid_data
StrictListField_keepAll(items, r) ==
    IF r.failed THEN FailKeeping(r.messages, items) ELSE r

\* StrictListField._deserialize, the except clause on the outcome r of the
\* list: exc.data is None on the ValidationError a marshmallow 3 list
\* raises, so nothing is filtered and the error is raised again as it is
StrictListField_except(items, r) == r

StrictListField_deserialize(items, res) ==
    StrictListField_except(items, List_deserialize(items, res))

---------------------------------------------------------------------------
(* Schemas *)

\* Schema._deserialize of one object, r[f] the outcome of the declared
\* field f: every declared field is deserialized, then the unknown keys
\* are handled
Schema_load(obj, names, r, unknown) ==
    LET unk == IF unknown = "RAISE" THEN DOMAIN obj \ names ELSE {}
        inc == IF unknown = "INCLUDE" THEN DOMAIN obj \ names ELSE {}
    IN  [result |-> [f \in {g \in names : Len(r[g].valid) = 1} \cup inc |->
                        IF f \in names THEN r[f].valid[1] ELSE obj[f]],
         errors |-> [k \in {g \in names : r[g].failed} \cup unk |->
                        IF k \in names THEN r[k].messages ELSE <<MsgUnknown>>]]

\* the variant of the hook that filters no record of a list
StrictSchema_noFilter(many, items, errs) == IF many THEN items ELSE <<>>

\* the variant of the hook that keeps a single object
StrictSchema_keepObject(many, items, errs) ==
    IF many
    THEN KeepIdx(items, {i \in 1..Len(items) : (i - 1) \notin DOMAIN errs})
    ELSE items

\* StrictSchema.handle_error: valid_data is the input records whose index
\* has no message when many, None (falsy) otherwise
StrictSchema_handle_error(many, items, errs) ==
    IF many
    THEN KeepIdx(items, {i \in 1..Len(items) : (i - 1) \notin DOMAIN errs})
    ELSE <<>>

\* fields.Nested(schema, many=True) of a StrictSchema, loads[i] the load
\* of items[i]
NestedMany(items, loads) ==
    LET bad == {i \in 1..Len(items) : DOMAIN loads[i].errors # {}}
        errs == [i \in {j - 1 : j \in bad} |-> loads[i + 1].errors]
    IN  IF bad = {} THEN Ok([i \in 1..Len(items) |-> loads[i].result])
        ELSE FailKeeping(errs, StrictSchema_handle_error(TRUE, items, errs))

\* fields.Nested(schema) of one object, l its load; a plain Schema has no
\* hook and its error carries the partial result as valid_data
NestedOne(obj, l, isStrictSchema) ==
    IF DOMAIN l.errors = {} THEN Ok(l.result)
    ELSE FailKeeping(l.errors,
                     IF isStrictSchema
                     THEN StrictSchema_handle_error(FALSE, obj, l.errors)
                     ELSE l.result)

Str(v) == Ok(v)

\* fields.Bool on a JSON boolean
Bool(v) == IF v \in {"true", "false"} THEN Ok(v) ELSE Fail(<<MsgBool>>)

AuthorFields == {"name", "email", "maintainer", "url"}

AuthorSchema(obj, f) ==
    LET v == Get(obj, f)
    IN  CASE f = "name" ->
                Field(obj, f, TRUE, Validated(v, Length(v, 1, 50)))
          [] f = "email" ->
                Field(obj, f, FALSE, Validated(v, Email(v) \o Length(v, 1, 50)))
          [] f = "maintainer" ->
                Field(obj, f, FALSE, Bool(v))
          [] f = "url" ->
                Field(obj, f, FALSE, Validated(v, Url(v) \o Length(v, 1, 255)))

AuthorSchema_load(obj) ==
    Schema_load(obj, AuthorFields, [f \in AuthorFields |-> AuthorSchema(obj, f)], "RAISE")

RepositoryFields == {"type", "url", "branch"}

RepoTypes == { <<"g","i","t">>, <<"h","g">>, <<"s","v","n">> }

RepositorySchema(obj, f) ==
    LET v == Get(obj, f)
    IN  CASE f = "type" ->
                Field(obj, f, TRUE, Validated(v, OneOf(v, RepoTypes, MsgRepoType)))
          [] f = "url" ->
                Field(obj, f, TRUE, Validated(v, Length(v, 1, 255)))
          [] f = "branch" ->
                Field(obj, f, FALSE, Validated(v, Length(v, 1, 50)))

RepositorySchema_load(obj) ==
    Schema_load(obj, RepositoryFields,
                [f \in RepositoryFields |-> RepositorySchema(obj, f)], "RAISE")

ExportFields == {"include", "exclude"}

ExportSchema(obj, f) ==
    LET v == Get(obj, f)
    IN  Field(obj, f, FALSE,
              StrictListField_deserialize(v, [i \in 1..Len(v) |-> Str(v[i])]))

ExportSchema_load(obj) ==
    Schema_load(obj, ExportFields, [f \in ExportFields |-> ExportSchema(obj, f)], "RAISE")

ExampleFields == {"name", "base", "files"}

ExampleNameChars == LowerChars \cup UpperChars \cup DigitChars \cup {"-", "_", "/"}

ExampleSchema(obj, f) ==
    LET v == Get(obj, f)
    IN  CASE f = "name" ->
                Field(obj, f, TRUE,
                      Validated(v, Length(v, 1, 100)
                                     \o Regexp(v, ExampleNameChars, MsgExampleName)))
          [] f = "base" ->
                Field(obj, f, TRUE, Str(v))
          [] f = "files" ->
                Field(obj, f, TRUE,
                      StrictListField_deserialize(v, [i \in 1..Len(v) |-> Str(v[i])]))

ExampleSchema_load(obj) ==
    Schema_load(obj, ExampleFields, [f \in ExampleFields |-> ExampleSchema(obj, f)], "RAISE")

KeywordChars == LowerChars \cup DigitChars \cup {"-", "+", ".", " "}
PlatformChars == LowerChars \cup DigitChars \cup {"-", "_"}

Keyword(v) == Validated(v, Length(v, 1, 50) \o Regexp(v, KeywordChars, MsgKeyword))
Platform(v) == Validated(v, Length(v, 1, 50) \o RegexpOrStar(v, PlatformChars, MsgPlatform))
System(v) == Validated(v, Length(v, 1, 50) \o Regexp(v, PlatformChars, MsgSystem))

\* the fields of ManifestSchema, in the order of their declaration
DeclaredFields == << "name", "version", "authors", "description", "homepage",
                     "license", "repository", "export", "examples",
                     "keywords", "platforms", "frameworks", "title", "system" >>

FieldNames == {DeclaredFields[i] : i \in 1..Len(DeclaredFields)}

ScalarFields == {"name", "version", "description", "homepage", "license", "title"}
ScalarListFields == {"keywords", "platforms", "frameworks", "system"}
ObjectListFields == {"authors", "examples"}

\* ManifestSchema: the deserialization of one declared field of a document
ManifestSchema(doc, f) ==
    LET v == Get(doc, f)
    IN  CASE f = "name" ->
                Field(doc, f, TRUE, Validated(v, Length(v, 1, 100)))
          [] f = "version" ->
                Field(doc, f, TRUE, Validated(v, Length(v, 1, 50)))
          [] f = "authors" ->
                Field(doc, f, FALSE,
                      NestedMany(v, [i \in 1..Len(v) |-> AuthorSchema_load(v[i])]))
          [] f = "description" ->
                Field(doc, f, FALSE, Validated(v, Length(v, 1, 1000)))
          [] f = "homepage" ->
                Field(doc, f, FALSE, Validated(v, Url(v) \o Length(v, 1, 255)))
          [] f = "license" ->
                Field(doc, f, FALSE, Validated(v, Length(v, 1, 255)))
          [] f = "repository" ->
                Field(doc, f, FALSE, NestedOne(v, RepositorySchema_load(v), TRUE))
          [] f = "export" ->
                Field(doc, f, FALSE, NestedOne(v, ExportSchema_load(v), FALSE))
          [] f = "examples" ->
                Field(doc, f, FALSE,
                      NestedMany(v, [i \in 1..Len(v) |-> ExampleSchema_load(v[i])]))
          [] f = "keywords" ->
                Field(doc, f, FALSE,
                      StrictListField_deserialize(v, [i \in 1..Len(v) |-> Keyword(v[i])]))
          [] f = "platforms" ->
                Field(doc, f, FALSE,
                      StrictListField_deserialize(v, [i \in 1..Len(v) |-> Platform(v[i])]))
          [] f = "frameworks" ->
                Field(doc, f, FALSE,
                      StrictListField_deserialize(v, [i \in 1..Len(v) |-> Platform(v[i])]))
          [] f = "title" ->
                Field(doc, f, FALSE, Validated(v, Length(v, 1, 100)))
          [] f = "system" ->
                Field(doc, f, FALSE,
                      StrictListField_deserialize(v, [i \in 1..Len(v) |-> System(v[i])]))

\* the default of a schema that sets no Meta.unknown
MetaUnknownRaise == "RAISE"

\* class Meta of ManifestSchema: unknown = EXCLUDE
MetaUnknown == "EXCLUDE"

---------------------------------------------------------------------------
(* Input documents *)

S_lib == <<"l","i","b">>
S_1_2 == <<"1",".","2">>
S_url == <<"h","t","t","p",":","/","/","a",".","i","o">>
S_MIT == <<"M","I","T">>
S_git == <<"g","i","t">>

\* the authors of the examples: the second has no name and a bad email,
\* the fourth an unknown key, the fifth a maintainer that is no boolean
AuthorA == [name |-> <<"A">>]
AuthorBad == [email |-> <<"b","a","d">>]
AuthorC == [name |-> <<"C">>, email |-> <<"c","@","d",".","i","o">>,
            maintainer |-> "true", url |-> S_url]
AuthorD == [name |-> <<"D">>, web |-> S_url]
AuthorE == [name |-> <<"E">>, maintainer |-> "maybe"]

ExampleOk == [name |-> <<"e","x","/","O","n","e">>, base |-> <<"e","x">>,
              files |-> << <<"m",".","c">> >>]
ExampleBadName == [name |-> <<"e","x"," ","!">>, base |-> <<"e","x">>,
                   files |-> << <<"m",".","c">> >>]
ExampleNoFiles == [name |-> <<"t","w","o">>, base |-> <<"e","x">>]

\* the document every input departs from
BaseDoc == [name |-> S_lib, version |-> S_1_2]

InputKeys == FieldNames \cup {"extra"}

\* the values a key takes in the inputs besides BaseDoc's: <<>> leaves
\* the key out of the document, <<v>> gives it the value v
Alternatives(k) ==
    CASE k = "name" -> << <<>>, <<Rep("x", 101)>> >>
      [] k = "version" -> << <<>>, << <<"1">> >>, << <<"a",".","b">> >> >>
      [] k = "authors" ->
            << << <<AuthorA, AuthorBad>> >>,
               << <<AuthorBad, AuthorC, AuthorD, AuthorA, AuthorE>> >>,
               << <<AuthorBad>> >>,
               << <<AuthorC, AuthorA>> >> >>
      [] k = "description" -> << << <<"o","k">> >>, << <<>> >> >>
      [] k = "homepage" -> << <<S_url>>, << <<"a",".","i","o">> >> >>
      [] k = "license" ->
            << <<S_MIT>>, << <<"m","i","t">> >>, <<Rep("x", 256)>> >>
      [] k = "repository" ->
            << <<[type |-> S_git, url |-> S_url]>>,
               <<[type |-> <<"c","v","s">>, url |-> S_url]>>,
               <<[type |-> S_git, branch |-> <<"d","e","v">>]>> >>
      [] k = "export" ->
            << <<[include |-> << <<"s","r","c">> >>, exclude |-> << <<"d","o","c">> >>]>>,
               <<[include |-> << <<"s","r","c">> >>, only |-> <<"x">>]>>,
               <<[only |-> <<"x">>]>> >>
      [] k = "examples" ->
            << << <<ExampleOk, ExampleBadName, ExampleNoFiles>> >>,
               << <<ExampleOk>> >> >>
      [] k = "keywords" ->
            << << << <<"v","a","l","i","d","-","o","n","e">>,
                     <<"I","n","v","a","l","i","d"," ","C","a","p","s","!">> >> >>,
               << << <<"B","a","d","!">> >> >>,
               << << <<"B">>, <<"c"," ","d">>, Rep("k", 51), <<"a","+","1">>,
                     <<"c"," ","d">> >> >>,
               << <<>> >> >>
      [] k = "platforms" ->
            << << << <<"*">>, <<"a","_","1">> >> >>,
               << << <<"a","*">>, <<"o","k">> >> >> >>
      [] k = "frameworks" ->
            << << << <<"m","b","e","d">> >> >>,
               << << <<"M","b","e","d">>, <<"m","b","e","d">> >> >> >>
      [] k = "title" -> << << <<"T">> >>, <<Rep("t", 101)>> >>
      [] k = "system" ->
            << << << <<"l","i","n","u","x","_","6","4">> >> >>,
               << << <<"l","i","n","u","x"," ","6","4">>, <<"d","a","r","w","i","n">>,
                     <<"*">> >> >> >>
      [] k = "extra" -> << << <<"a","n","y">> >> >>

\* the choice of a value for k: 0 is BaseDoc's, n > 0 the n-th alternative
Choice(k, n) ==
    IF n = 0 THEN (IF k \in DOMAIN BaseDoc THEN <<BaseDoc[k]>> ELSE <<>>)
    ELSE Alternatives(k)[n]

\* the document that departs from BaseDoc by the alternatives c of the keys
\* in DOMAIN c
Edited(c) ==
    LET n(k) == IF k \in DOMAIN c THEN c[k] ELSE 0
    IN  [k \in {j \in InputKeys : Len(Choice(j, n(j))) = 1} |-> Choice(k, n(k))[1]]

EditSets(keys) == {E \in SUBSET keys : Cardinality(E) <= MaxEdits}

Edits(E) == {c \in [E -> 1..4] : \A k \in E : c[k] <= Len(Alternatives(k))}

---------------------------------------------------------------------------
(* The license registry *)

\* the variant of the expiry that is a minute
ExpireOneMinute == 60 * 1

\* @memoized(expire="1h"), in seconds
ExpireSeconds == 3600

SpdxLicenses == << S_MIT, <<"A","p","a","c","h","e","-","2",".","0">> >>

\* what the registry's endpoint may answer: the license list, a JSON
\* document that is no object, or no answer at all (the request raises)
Responses == {"licenses", "array", "network"}

Body(resp) ==
    IF resp = "licenses" THEN [kind |-> "object", licenses |-> SpdxLicenses]
    ELSE [kind |-> "array", licenses |-> <<>>]

\* memoized: the cached value is served while it is younger than the expiry
Fresh == Len(cache) = 1 /\ now - cache[1].at < ExpireSeconds

\* load_spdx_licenses under memoized, the endpoint answering resp: a cached
\* value is returned without a request; otherwise the request is made, its
\* failure is raised and nothing is cached, its answer is cached and returned
load_spdx_licenses(resp) ==
    IF Fresh
    THEN [requested |-> FALSE, raised |-> FALSE, body |-> cache[1].body, cache |-> cache]
    ELSE IF resp = "network"
    THEN [requested |-> TRUE, raised |-> TRUE, body |-> Body(resp), cache |-> cache]
    ELSE [requested |-> TRUE, raised |-> FALSE, body |-> Body(resp),
          cache |-> <<[at |-> now, body |-> Body(resp)]>>]

\* the variant that reports a failed fetch as an invalid identifier
license_verdict_conflated(value, l) ==
    IF ~l.raised /\ l.body.kind # "object" THEN "AttributeError"
    ELSE IF ~l.raised /\ \E i \in 1..Len(l.body.licenses) : l.body.licenses[i] = value
    THEN "valid"
    ELSE MsgSpdxInvalid

\* validate_license on the lookup l: "valid", the message of the
\* ValidationError raised, or the AttributeError of `spdx.get` on a
\* document that is no object
license_verdict(value, l) ==
    IF l.raised THEN MsgSpdxLoad
    ELSE IF l.body.kind # "object" THEN "AttributeError"
    ELSE IF \E i \in 1..Len(l.body.licenses) : l.body.licenses[i] = value
    THEN "valid"
    ELSE MsgSpdxInvalid

---------------------------------------------------------------------------
(* The version *)

\* validate_version: the value has a "." and semantic_version coerces it,
\* which needs a leading numeric component
IsSemver(s) == Contains(s, ".") /\ Len(s) >= 1 /\ s[1] \in DigitChars

---------------------------------------------------------------------------
(* One validation call *)

Put(d, k, v) == [x \in DOMAIN d \cup {k} |-> IF x = k THEN v ELSE d[x]]

Pop(d, k) == [x \in DOMAIN d \ {k} |-> d[x]]

Callers == 1..NumCallers

Init ==
    /\ pc = "Idle"
    /\ manifest = <<>>
    /\ strict = FALSE
    /\ cursor = 0
    /\ data = <<>>
    /\ errors = <<>>
    /\ evaluated = {}
    /\ request = "none"
    /\ outcome = "None"
    /\ out = <<>>
    /\ messages = <<>>
    /\ cache = <<>>
    /\ now = 0
    /\ ticks = 0
    /\ cpc = [c \in Callers |-> "idle"]
    /\ cseen = [c \in Callers |-> "nothing"]
    /\ inflight = 0
    /\ flights = 0

\* ManifestSchema(strict=...).load_manifest(manifest): the call of a
\* document that departs from BaseDoc in keys of `keys`
Call(keys) ==
    /\ pc = "Idle"
    /\ \E E \in EditSets(keys) : \E c \in Edits(E) : manifest' = Edited(c)
    /\ strict' \in BOOLEAN
    /\ pc' = "Deserialize"
    /\ cursor' = 1
    /\ UNCHANGED <<data, errors, evaluated, request, outcome, out, messages,
                   cache, now, ticks, lookups>>

load_manifest == Call(InputKeys)

\* Schema._deserialize: the next declared field is deserialized, its value
\* set in the output unless missing, its messages stored
DeserializeField ==
    /\ pc = "Deserialize"
    /\ LET f == DeclaredFields[cursor]
           r == ManifestSchema(manifest, f)
       IN  /\ data' = IF Len(r.valid) = 1 THEN Put(data, f, r.valid[1]) ELSE data
           /\ errors' = IF r.failed THEN Put(errors, f, r.messages) ELSE errors
           /\ evaluated' = evaluated \cup {f}
    /\ cursor' = cursor + 1
    /\ pc' = IF cursor = Len(DeclaredFields) THEN "Unknown" ELSE "Deserialize"
    /\ UNCHANGED <<manifest, strict, request, outcome, out, messages,
                   cache, now, ticks, lookups>>

\* Schema._deserialize, after the fields: the keys that are no field
UnknownKeys ==
    /\ pc = "Unknown"
    /\ LET unk == DOMAIN manifest \ FieldNames
       IN  /\ errors' = IF MetaUnknown = "RAISE"
                        THEN [k \in DOMAIN errors \cup unk |->
                                IF k \in unk THEN <<MsgUnknown>> ELSE errors[k]]
                        ELSE errors
           /\ data' = IF MetaUnknown = "INCLUDE"
                      THEN [k \in DOMAIN data \cup unk |->
                                IF k \in unk THEN manifest[k] ELSE data[k]]
                      ELSE data
    /\ pc' = "validate_version"
    /\ UNCHANGED <<manifest, strict, cursor, evaluated, request, outcome, out,
                   messages, cache, now, ticks, lookups>>

\* @validates("version"): runs on a version that was deserialized; a
\* failure stores the message and pops the field from the output
validate_version ==
    /\ pc = "validate_version"
    /\ IF "version" \in DOMAIN data
       THEN /\ evaluated' = evaluated \cup {"validate_version"}
            /\ IF IsSemver(data["version"])
               THEN UNCHANGED <<data, errors>>
               ELSE /\ errors' = Put(errors, "version", <<MsgSemver>>)
                    /\ data' = Pop(data, "version")
       ELSE UNCHANGED <<data, errors, evaluated>>
    /\ pc' = "validate_license"
    /\ UNCHANGED <<manifest, strict, cursor, request, outcome, out, messages,
                   cache, now, ticks, lookups>>

\* @validates("license"): runs on a license that was deserialized
validate_license ==
    /\ pc = "validate_license"
    /\ \/ /\ "license" \notin DOMAIN data
          /\ pc' = "handle_error"
          /\ UNCHANGED <<data, errors, evaluated, request, outcome, cache>>
       \/ /\ "license" \in DOMAIN data
          /\ \E resp \in Responses :
                LET l == load_spdx_licenses(resp)
                    v == license_verdict(data["license"], l)
                IN  /\ cache' = l.cache
                    /\ request' = IF l.requested THEN resp ELSE request
                    /\ evaluated' = evaluated \cup {"validate_license"}
                    /\ IF v = "AttributeError"
                       THEN /\ outcome' = "Crashed"
                            /\ pc' = "Returned"
                            /\ UNCHANGED <<data, errors>>
                       ELSE /\ pc' = "handle_error"
                            /\ outcome' = outcome
                            /\ IF v = "valid"
                               THEN UNCHANGED <<data, errors>>
                               ELSE /\ errors' = Put(errors, "license", <<v>>)
                                    /\ data' = Pop(data, "license")
    /\ UNCHANGED <<manifest, strict, cursor, out, messages, now, ticks, lookups>>

\* the variant of the hook that raises in no mode
handle_error_never(isStrict) == FALSE

\* ManifestSchema.handle_error: TRUE when ManifestValidationError is raised
handle_error(isStrict) == isStrict

\* the end of Schema.load and of load_manifest: without messages the
\* document is returned with None; with messages the hook runs, and either
\* its error leaves load_manifest or the ValidationError is caught and its
\* valid_data and messages are returned
load_manifest_return ==
    /\ pc = "handle_error"
    /\ IF DOMAIN errors = {}
       THEN /\ outcome' = "Done"
            /\ out' = data
            /\ messages' = <<>>
       ELSE IF handle_error(strict)
       THEN /\ outcome' = "Aborted"
            /\ out' = <<>>
            /\ messages' = errors
       ELSE /\ outcome' = "Done"
            /\ out' = data
            /\ messages' = errors
    /\ pc' = "Returned"
    /\ UNCHANGED <<manifest, strict, cursor, data, errors, evaluated, request,
                   cache, now, ticks, lookups>>

\* the caller is done with the result; the next call starts afresh
NextCall ==
    /\ pc = "Returned"
    /\ pc' = "Idle"
    /\ manifest' = <<>>
    /\ strict' = FALSE
    /\ cursor' = 0
    /\ data' = <<>>
    /\ errors' = <<>>
    /\ evaluated' = {}
    /\ request' = "none"
    /\ outcome' = "None"
    /\ out' = <<>>
    /\ messages' = <<>>
    /\ UNCHANGED <<cache, now, ticks, lookups>>

Next ==
    \/ load_manifest
    \/ DeserializeField
    \/ UnknownKeys
    \/ validate_version
    \/ validate_license
    \/ load_manifest_return
    \/ NextCall

Spec == Init /\ [][Next]_vars

---------------------------------------------------------------------------
(* License validations as the clock advances *)

\* the document carries at most a license besides BaseDoc
validate_licenses == Call({"license"})

\* time passes: a second, or a second short of the expiry
Tick ==
    /\ ticks < MaxTicks
    /\ \E d \in {1, ExpireSeconds - 1} : now' = now + d
    /\ ticks' = ticks + 1
    /\ UNCHANGED <<engine, cache, lookups>>

NextCache ==
    \/ validate_licenses
    \/ DeserializeField
    \/ UnknownKeys
    \/ validate_version
    \/ validate_license
    \/ load_manifest_return
    \/ NextCall
    \/ Tick

SpecCache == Init /\ [][NextCache]_vars

---------------------------------------------------------------------------
(* Properties of one validation call *)

Returned == pc = "Returned"

\* the declared fields whose deserialization fails on the input document
FailingFields == {f \in FieldNames : ManifestSchema(manifest, f).failed}

\* the position of a field in the order of declaration
Position(f) == CHOOSE i \in 1..Len(DeclaredFields) : DeclaredFields[i] = f

FirstFailing ==
    CHOOSE f \in FailingFields : \A g \in FailingFields : Position(f) <= Position(g)

\* the sequence a list field has in the returned document; a field that
\* is not in the document has no item
Repaired(f) == IF f \in DOMAIN out THEN out[f] ELSE <<>>

\* C1, as stated: in strict mode a document with two or more failing
\* top-level fields aborts at the first of them in declaration order: the
\* error carries that violation alone, no field declared after it is
\* evaluated, and no document is returned.
C1_StrictStopsAtFirstViolation ==
    (Returned /\ strict /\ Cardinality(FailingFields) >= 2) =>
        /\ outcome = "Aborted"
        /\ out = <<>>
        /\ DOMAIN messages = {FirstFailing}
        /\ \A g \in evaluated \cap FieldNames : Position(g) <= Position(FirstFailing)

\* C1, amended: in strict mode a document with two or more failing
\* top-level fields returns no document; every declared field is
\* evaluated, and the ManifestValidationError raised carries the messages
\* of every failing field.
C1_StrictCollectsAllViolations ==
    (Returned /\ strict /\ Cardinality(FailingFields) >= 2) =>
        /\ outcome # "Done"
        /\ out = <<>>
        /\ FieldNames \subseteq evaluated
        /\ outcome = "Aborted" =>
                /\ FailingFields \subseteq DOMAIN messages
                /\ \A f \in FailingFields :
                        messages[f] = ManifestSchema(manifest, f).messages

C1_Witness ==
    /\ Returned /\ strict /\ outcome = "Aborted"
    /\ Cardinality(FailingFields) >= 2
    /\ Cardinality(DOMAIN messages) >= 2

\* C2: in best-effort mode a call never aborts: whatever the document and
\* whatever the registry answers, load_manifest returns a pair.
C2_BestEffortReachesDone ==
    (Returned /\ ~strict) => outcome = "Done"

\* C3: a document without `name` or `version` fails in strict mode with
\* the required-field message; in best-effort mode the call succeeds, the
\* messages have an entry for the field, the output has not the field, and
\* the other fields are validated and returned.
C3_MissingRequiredField ==
    \A f \in {"name", "version"} :
        (Returned /\ f \notin DOMAIN manifest) =>
            IF strict
            THEN /\ outcome = "Aborted"
                 /\ f \in DOMAIN messages
                 /\ messages[f] = <<MsgRequired>>
            ELSE /\ outcome = "Done"
                 /\ f \in DOMAIN messages
                 /\ f \notin DOMAIN out
                 /\ \A g \in FieldNames \ {f} :
                        /\ g \in evaluated
                        /\ (g \in DOMAIN manifest /\ g \notin DOMAIN messages)
                                => g \in DOMAIN out

\* an object of a list of objects has a violation of its schema
ObjectFails(f, obj) ==
    IF f = "authors"
    THEN DOMAIN AuthorSchema_load(obj).errors # {}
    ELSE DOMAIN ExampleSchema_load(obj).errors # {}

GoodObjects(f) ==
    {i \in 1..Len(manifest[f]) : ~ObjectFails(f, manifest[f][i])}

\* C4: in best-effort mode the returned `authors` and `examples` are
\* exactly the input objects without violation, in their order (none when
\* the field is left out), and the messages of the field have an entry at
\* the 0-based index of every object with a violation and of no other.
C4_ObjectListsDropInvalidObjects ==
    \A f \in ObjectListFields :
        (Returned /\ ~strict /\ outcome = "Done" /\ f \in DOMAIN manifest) =>
            /\ Repaired(f) = KeepIdx(manifest[f], GoodObjects(f))
            /\ GoodObjects(f) # 1..Len(manifest[f]) =>
                    /\ f \in DOMAIN messages
                    /\ DOMAIN messages[f] =
                         {i - 1 : i \in (1..Len(manifest[f])) \ GoodObjects(f)}

C4_Witness ==
    /\ Returned /\ ~strict /\ outcome = "Done"
    /\ "authors" \in DOMAIN manifest
    /\ manifest["authors"] = <<AuthorBad, AuthorC, AuthorD, AuthorA, AuthorE>>
    /\ "authors" \in DOMAIN out
    /\ out["authors"] = <<AuthorC, AuthorA>>
    /\ DOMAIN messages["authors"] = {0, 2, 4}

\* an item of a list of strings passes the validators of its field
ItemPasses(f, v) ==
    CASE f = "keywords" -> Length(v, 1, 50) \o Regexp(v, KeywordChars, MsgKeyword) = <<>>
      [] f \in {"platforms", "frameworks"} ->
            Length(v, 1, 50) \o RegexpOrStar(v, PlatformChars, MsgPlatform) = <<>>
      [] f = "system" -> Length(v, 1, 50) \o Regexp(v, PlatformChars, MsgSystem) = <<>>

GoodItems(f) == {i \in 1..Len(manifest[f]) : ItemPasses(f, manifest[f][i])}

\* C5: in best-effort mode the returned `keywords`, `platforms`,
\* `frameworks` and `system` are exactly the input items that pass the
\* validators of the field, in their order (none when the field is left
\* out): a failing item is dropped and no item is added.
C5_ScalarListsKeepPassingItems ==
    \A f \in ScalarListFields :
        (Returned /\ ~strict /\ outcome = "Done" /\ f \in DOMAIN manifest) =>
            /\ Repaired(f) = KeepIdx(manifest[f], GoodItems(f))
            /\ \A i \in 1..Len(Repaired(f)) :
                    \E j \in 1..Len(manifest[f]) : manifest[f][j] = Repaired(f)[i]

C5_Witness ==
    /\ Returned /\ ~strict /\ outcome = "Done"
    /\ "keywords" \in DOMAIN manifest /\ "keywords" \in DOMAIN out
    /\ Len(manifest["keywords"]) = 5
    /\ out["keywords"] = << <<"c"," ","d">>, <<"a","+","1">>, <<"c"," ","d">> >>

\* C6: a license validation whose registry fetch fails reports the
\* could-not-load message, in strict mode in the error raised and in
\* best-effort mode beside an output without the license; an identifier
\* that a fetched registry does not list reports the invalid-identifier
\* message, and the two messages differ.
C6_UnavailableIsNotInvalid ==
    /\ (Returned /\ request = "network") =>
            /\ outcome = IF strict THEN "Aborted" ELSE "Done"
            /\ "license" \in DOMAIN messages
            /\ messages["license"] = <<MsgSpdxLoad>>
            /\ "license" \notin DOMAIN out
    /\ (Returned /\ request = "licenses") =>
            \/ \E i \in 1..Len(SpdxLicenses) : SpdxLicenses[i] = manifest["license"]
            \/ /\ "license" \in DOMAIN messages
               /\ messages["license"] = <<MsgSpdxInvalid>>
               /\ messages["license"] # <<MsgSpdxLoad>>

C6_Witness ==
    /\ Returned /\ request = "network" /\ ~strict /\ outcome = "Done"
    /\ messages["license"] = <<MsgSpdxLoad>>
    /\ DOMAIN manifest \ DOMAIN out = {"license"}

\* the document without the keys that are no declared field
Known(doc) == [k \in DOMAIN doc \cap FieldNames |-> doc[k]]

ExpectedData(doc) ==
    [f \in {g \in FieldNames : Len(ManifestSchema(doc, g).valid) = 1} |->
        ManifestSchema(doc, f).valid[1]]

ExpectedErrors(doc) ==
    [f \in {g \in FieldNames : ManifestSchema(doc, g).failed} |->
        ManifestSchema(doc, f).messages]

\* C9: a key that is no declared field brings no message and is in no
\* output, in either mode: the deserialization pass leaves the output and
\* the messages it leaves for the document without such keys, and neither
\* the returned document nor the messages have such a key.
C9_UnknownKeysAreIgnored ==
    /\ pc = "validate_version" =>
            /\ data = ExpectedData(Known(manifest))
            /\ errors = ExpectedErrors(Known(manifest))
    /\ Returned =>
            /\ DOMAIN out \subseteq FieldNames
            /\ DOMAIN messages \subseteq FieldNames
            /\ (DOMAIN Known(manifest) = DOMAIN BaseDoc /\ Known(manifest) = BaseDoc)
                    => (outcome = "Done" /\ out = BaseDoc /\ messages = <<>>)

C9_Witness ==
    /\ Returned /\ strict /\ outcome = "Done"
    /\ "extra" \in DOMAIN manifest
    /\ DOMAIN out = DOMAIN manifest \ {"extra"}

\* C10, as stated: in best-effort mode every scalar field, `repository`
\* and `export` with a violation is left out of the output whole, with its
\* messages recorded, and the other fields are still processed.
C10_ViolatingFieldsOmitted ==
    \A f \in ScalarFields \cup {"repository", "export"} :
        (Returned /\ ~strict /\ outcome = "Done") =>
            /\ f \in FailingFields => f \in DOMAIN messages
            /\ f \in DOMAIN messages => f \notin DOMAIN out
            /\ FieldNames \subseteq evaluated

\* C10, amended: in best-effort mode every scalar field and `repository`
\* with a violation is left out of the output whole, with its messages
\* recorded, and the other fields are still processed; `export` with a
\* violation has its messages recorded and is returned with the part of it
\* that is valid, unless that part is empty.
C10_ViolatingFieldsOmittedButExport ==
    (Returned /\ ~strict /\ outcome = "Done") =>
        /\ FieldNames \subseteq evaluated
        /\ \A f \in ScalarFields \cup {"repository"} :
                /\ f \in FailingFields => f \in DOMAIN messages
                /\ f \in DOMAIN messages => f \notin DOMAIN out
        /\ "export" \in FailingFields =>
                /\ "export" \in DOMAIN messages
                /\ LET part == ExportSchema_load(manifest["export"]).result
                   IN  IF DOMAIN part = {}
                       THEN "export" \notin DOMAIN out
                       ELSE "export" \in DOMAIN out /\ out["export"] = part

C10_Witness ==
    /\ Returned /\ ~strict /\ outcome = "Done"
    /\ "repository" \in FailingFields
    /\ "repository" \in DOMAIN messages
    /\ "repository" \notin DOMAIN out
    /\ Cardinality(DOMAIN out) >= 2

---------------------------------------------------------------------------
(* Properties of the registry as the clock advances *)

---------------------------------------------------------------------------
(* Concurrent lookups of the registry *)

\* the variant without single-flight: a caller that misses always fetches
MayFetchAlways == TRUE

\* single-flight: a caller that misses fetches when no refetch is under way
MayFetch == inflight = 0

Pending == {c \in Callers : cpc[c] \in {"fetching", "waiting"}}

\* a caller looks the registry up: a fresh cached value answers it at
\* once; on a miss it starts the refetch, or waits for the one under way
Lookup(c) ==
    /\ cpc[c] = "idle"
    /\ IF Fresh
       THEN /\ cpc' = [cpc EXCEPT ![c] = "answered"]
            /\ cseen' = [cseen EXCEPT ![c] = cache[1].body.kind]
            /\ UNCHANGED <<inflight, flights>>
       ELSE IF MayFetch
       THEN /\ flights < MaxFlights
            /\ cpc' = [cpc EXCEPT ![c] = "fetching"]
            /\ inflight' = c
            /\ flights' = flights + 1
            /\ UNCHANGED cseen
       ELSE /\ cpc' = [cpc EXCEPT ![c] = "waiting"]
            /\ UNCHANGED <<cseen, inflight, flights>>
    /\ UNCHANGED <<engine, cache, now, ticks>>

\* the refetch ends: its answer is cached unless the request failed, and
\* the fetching caller and the callers waiting for it are answered with it
Complete(c) ==
    /\ cpc[c] = "fetching"
    /\ \E resp \in Responses :
        /\ cache' = IF resp = "network" THEN cache
                    ELSE <<[at |-> now, body |-> Body(resp)]>>
        /\ cseen' = [d \in Callers |->
                        IF d = c \/ cpc[d] = "waiting"
                        THEN (IF resp = "network" THEN "FetchError" ELSE Body(resp).kind)
                        ELSE cseen[d]]
    /\ cpc' = [d \in Callers |->
                    IF d = c \/ cpc[d] = "waiting" THEN "answered" ELSE cpc[d]]
    /\ inflight' = IF inflight = c THEN 0 ELSE inflight
    /\ UNCHANGED <<engine, now, ticks, flights>>

\* the caller takes its answer and may look up again
Release(c) ==
    /\ cpc[c] = "answered"
    /\ cpc' = [cpc EXCEPT ![c] = "idle"]
    /\ cseen' = [cseen EXCEPT ![c] = "nothing"]
    /\ UNCHANGED <<engine, cache, now, ticks, inflight, flights>>

NextConc ==
    \/ \E c \in Callers : Lookup(c)
    \/ \E c \in Callers : Complete(c)
    \/ \E c \in Callers : Release(c)
    \/ Tick

SpecConc == Init /\ [][NextConc]_vars

\* C8: of the callers that look the registry up while it is missing or
\* expired, one at most is fetching at any time, no fetch is issued while
\* another is under way, and when the refetch ends all of them are
\* answered with the same registry or the same failure.
C8_SingleFlight ==
    [][ /\ Cardinality({c \in Callers : cpc'[c] = "fetching"}) <= 1
        /\ flights' > flights =>
                (flights' = flights + 1 /\ \A c \in Callers : cpc[c] # "fetching")
        /\ \A c \in Pending : \A d \in Pending :
                (cpc'[c] = "answered" /\ cpc'[d] = "answered") => cseen'[c] = cseen'[d]
        /\ \A c \in Pending : cpc[c] = "waiting" => inflight # 0
      ]_vars

C8_Witness ==
    /\ \A c \in Callers : cpc[c] = "answered"
    /\ \A c \in Callers : cseen[c] = "FetchError"
    /\ flights = 1

====
